---- MODULE Spec2Model ----
(***************************************************************************)
(* A model of the PodcastIndex proxy worker (src/src/index.ts): the NIP-98 *)
(* claim validator, the URL canonicalizer it uses, the hex decoder, the    *)
(* path policy and the fetch handler that gates the upstream request.      *)
(*                                                                         *)
(* Strings are sequences of characters.  A character is a TLA+ string; a   *)
(* few multi-character tokens stand for an indivisible piece of text: the  *)
(* origin "https://h", the percent escapes "%2C", "%3D", ... and the words *)
(* of the endpoint tables ("search", "byterm", ...), which are never split.*)
(***************************************************************************)
EXTENDS Integers, Sequences, FiniteSets, TLC

VARIABLES
    canon,      \* the canonicalizer's input and its first and second output
    request,    \* the request being handled by fetch (or the idle marker)
    pc,         \* the handler's position between its awaits
    authResult, \* what validateNip98Auth returned for this request
    response,   \* the response of the handler
    upstream    \* the upstream fetches made for this request

vars == <<canon, request, pc, authResult, response, upstream>>

(***************************************************************************)
(* Strings                                                                 *)
(***************************************************************************)

\* String.prototype.startsWith
StartsWith(s, p) == Len(p) <= Len(s) /\ SubSeq(s, 1, Len(p)) = p

\* String.prototype.indexOf from position i (1-based; 0 when absent)
RECURSIVE IndexFrom(_, _, _)
IndexFrom(s, c, i) ==
    IF i > Len(s) THEN 0
    ELSE IF s[i] = c THEN i
    ELSE IndexFrom(s, c, i + 1)

IndexOf(s, c) == IndexFrom(s, c, 1)

\* String.prototype.split on a one-character separator
RECURSIVE Split(_, _)
Split(s, sep) ==
    LET i == IndexOf(s, sep)
    IN  IF i = 0 THEN <<s>>
        ELSE <<SubSeq(s, 1, i - 1)>> \o Split(SubSeq(s, i + 1, Len(s)), sep)

\* Array.prototype.join of strings with a one-character separator
RECURSIVE Join(_, _)
Join(parts, sep) ==
    IF parts = <<>> THEN <<>>
    ELSE IF Len(parts) = 1 THEN parts[1]
    ELSE parts[1] \o <<sep>> \o Join(Tail(parts), sep)

RECURSIVE MapSeq(_, _)
MapSeq(Op(_), s) == IF s = <<>> THEN <<>> ELSE <<Op(s[1])>> \o MapSeq(Op, Tail(s))

RECURSIVE FilterSeq(_, _)
FilterSeq(Test(_), s) ==
    IF s = <<>> THEN <<>>
    ELSE IF Test(s[1]) THEN <<s[1]>> \o FilterSeq(Test, Tail(s))
    ELSE FilterSeq(Test, Tail(s))

\* The UTF-16 code unit of a character (the order Array.prototype.sort and
\* the string comparison operators use).
CodeUnit(c) ==
    CASE c = " " -> 32 [] c = "&" -> 38 [] c = "+" -> 43 [] c = "," -> 44
      [] c = "/" -> 47 [] c = "0" -> 48 [] c = "1" -> 49 [] c = "2" -> 50
      [] c = "=" -> 61 [] c = "?" -> 63 [] c = "A" -> 65 [] c = "B" -> 66
      [] c = "a" -> 97 [] c = "b" -> 98 [] c = "c" -> 99 [] c = "d" -> 100
      [] c = "g" -> 103 [] c = "p" -> 112
      [] OTHER -> 120

\* s < t for two strings
RECURSIVE StrLess(_, _)
StrLess(s, t) ==
    IF t = <<>> THEN FALSE
    ELSE IF s = <<>> THEN TRUE
    ELSE IF s[1] = t[1] THEN StrLess(Tail(s), Tail(t))
    ELSE CodeUnit(s[1]) < CodeUnit(t[1])

(***************************************************************************)
(* URL and URLSearchParams (the WHATWG URL standard, as far as              *)
(* normalizeUrlForComparison uses it)                                      *)
(***************************************************************************)

\* scheme and first host character of the absolute URLs of the model
Origins == {"https://h"}

\* new URL(urlStr) does not throw
IsAbsoluteUrl(u) == u # <<>> /\ u[1] \in Origins

\* the host runs up to the first "/" or "?" (or the end of the string)
RECURSIVE HostEnd(_, _)
HostEnd(u, i) ==
    IF i > Len(u) THEN Len(u)
    ELSE IF u[i] \in {"/", "?"} THEN i - 1
    ELSE HostEnd(u, i + 1)

\* url.origin
UrlOrigin(u) == SubSeq(u, 1, HostEnd(u, 2))

\* path and query: what follows the host
AfterHost(u) == SubSeq(u, HostEnd(u, 2) + 1, Len(u))

\* url.pathname: an empty path of an http(s) URL is "/"
UrlPathname(u) ==
    LET rest == AfterHost(u)
        q    == IndexOf(rest, "?")
        path == IF q = 0 THEN rest ELSE SubSeq(rest, 1, q - 1)
    IN  IF path = <<>> THEN <<"/">> ELSE path

\* url.search: "" when the query is absent or empty, else "?" + query
UrlSearch(u) ==
    LET rest  == AfterHost(u)
        q     == IndexOf(rest, "?")
        query == IF q = 0 THEN <<>> ELSE SubSeq(rest, q + 1, Len(rest))
    IN  IF query = <<>> THEN <<>> ELSE <<"?">> \o query

\* application/x-www-form-urlencoded decoding of one character
FormDecodeChar(c) ==
    CASE c = "+" -> " " [] c = "%2C" -> "," [] c = "%3D" -> "="
      [] c = "%3F" -> "?" [] c = "%26" -> "&" [] c = "%2F" -> "/"
      [] OTHER -> c

\* application/x-www-form-urlencoded encoding of one character
FormEncodeChar(c) ==
    CASE c = " " -> "+" [] c = "," -> "%2C" [] c = "=" -> "%3D"
      [] c = "?" -> "%3F" [] c = "&" -> "%26" [] c = "/" -> "%2F"
      [] OTHER -> c

FormDecode(s) == MapSeq(FormDecodeChar, s)
FormEncode(s) == MapSeq(FormEncodeChar, s)

NonEmpty(s) == s # <<>>

\* one name=value segment parsed: split at the first "=", both sides decoded
ParsePair(seg) ==
    LET i == IndexOf(seg, "=")
    IN  IF i = 0 THEN <<FormDecode(seg), <<>> >>
        ELSE <<FormDecode(SubSeq(seg, 1, i - 1)),
               FormDecode(SubSeq(seg, i + 1, Len(seg)))>>

\* new URLSearchParams(search): a leading "?" is dropped, the rest is split
\* on "&", empty segments are skipped
URLSearchParams(search) ==
    LET body == IF search # <<>> /\ search[1] = "?" THEN Tail(search) ELSE search
    IN  MapSeq(ParsePair, FilterSeq(NonEmpty, Split(body, "&")))

\* String(pair) of a [name, value] array: the key the default sort compares
PairToString(p) == p[1] \o <<",">> \o p[2]

\* p goes before the first entry whose key is greater (the sort is stable)
RECURSIVE InsertPair(_, _)
InsertPair(sorted, p) ==
    IF sorted = <<>> THEN <<p>>
    ELSE IF StrLess(PairToString(p), PairToString(sorted[1])) THEN <<p>> \o sorted
    ELSE <<sorted[1]>> \o InsertPair(Tail(sorted), p)

\* (mutant) the entries are left in the order of the query string
SortEntriesUnsorted(ps) == ps

\* [...params.entries()].sort(): no comparator, so by String(pair), stable
RECURSIVE SortEntries(_)
SortEntries(ps) ==
    IF ps = <<>> THEN <<>>
    ELSE InsertPair(SortEntries(SubSeq(ps, 1, Len(ps) - 1)), ps[Len(ps)])

SerializePair(p) == FormEncode(p[1]) \o <<"=">> \o FormEncode(p[2])

\* URLSearchParams.prototype.toString
ParamsToString(ps) == Join(MapSeq(SerializePair, ps), "&")

\* urlStr.replace(/[&?]$/, '')
StripTrailingSeparator(s) ==
    IF s # <<>> /\ s[Len(s)] \in {"&", "?"} THEN SubSeq(s, 1, Len(s) - 1) ELSE s

normalizeUrlForComparison(urlStr) ==
    IF IsAbsoluteUrl(urlStr)
    THEN LET sortedParams == SortEntries(URLSearchParams(UrlSearch(urlStr)))
             str          == ParamsToString(sortedParams)
         IN  UrlOrigin(urlStr) \o UrlPathname(urlStr)
                \o (IF str # <<>> THEN <<"?">> \o str ELSE <<>>)
    ELSE StripTrailingSeparator(urlStr)

(***************************************************************************)
(* JavaScript values as JSON.parse produces them                            *)
(***************************************************************************)

Undefined == [type |-> "undefined", num |-> 0, str |-> <<>>]
Null      == [type |-> "null", num |-> 0, str |-> <<>>]
Num(n)    == [type |-> "number", num |-> n, str |-> <<>>]
Str(s)    == [type |-> "string", num |-> 0, str |-> s]

\* a property read of undefined or null raises a TypeError
IsNullish(v) == v.type \in {"undefined", "null"}

\* ToNumber, for the subtraction now - event.created_at: undefined is NaN,
\* null is 0; the strings of the model are not numeric, so NaN
ToNumber(v) ==
    CASE v.type = "number" -> [nan |-> FALSE, num |-> v.num]
      [] v.type = "null"   -> [nan |-> FALSE, num |-> 0]
      [] OTHER             -> [nan |-> TRUE, num |-> 0]

Abs(n) == IF n < 0 THEN -n ELSE n

ToUpperChar(c) ==
    CASE c = "a" -> "A" [] c = "b" -> "B" [] c = "c" -> "C" [] c = "d" -> "D"
      [] c = "e" -> "E" [] c = "g" -> "G" [] c = "o" -> "O" [] c = "p" -> "P"
      [] c = "s" -> "S" [] c = "t" -> "T"
      [] OTHER -> c

ToLowerChar(c) ==
    CASE c = "A" -> "a" [] c = "B" -> "b" [] c = "C" -> "c" [] c = "D" -> "d"
      [] c = "E" -> "e" [] c = "G" -> "g" [] c = "O" -> "o" [] c = "P" -> "p"
      [] c = "S" -> "s" [] c = "T" -> "t"
      [] OTHER -> c

ToUpperCase(s) == MapSeq(ToUpperChar, s)
ToLowerCase(s) == MapSeq(ToLowerChar, s)

\* String.prototype.trim
RECURSIVE TrimStart(_)
TrimStart(s) == IF s # <<>> /\ s[1] = " " THEN TrimStart(Tail(s)) ELSE s

RECURSIVE TrimEnd(_)
TrimEnd(s) ==
    IF s # <<>> /\ s[Len(s)] = " " THEN TrimEnd(SubSeq(s, 1, Len(s) - 1)) ELSE s

Trim(s) == TrimEnd(TrimStart(s))

(***************************************************************************)
(* hexToBytes                                                              *)
(***************************************************************************)

\* the value of a hexadecimal digit, -1 for any other character
HexDigit(c) ==
    CASE c = "0" -> 0 [] c = "1" -> 1 [] c = "2" -> 2
      [] c \in {"a", "A"} -> 10 [] c \in {"b", "B"} -> 11
      [] c \in {"c", "C"} -> 12 [] c \in {"d", "D"} -> 13
      [] OTHER -> -1

\* parseInt(s, 16) of a string of at most two characters (none of them a sign
\* or "x"): leading white space is skipped, the longest prefix of hexadecimal
\* digits is read, and the result is NaN (-1 here) when that prefix is empty
ParseInt16(s) ==
    LET t == TrimStart(s)
    IN  IF t = <<>> \/ HexDigit(t[1]) < 0 THEN -1
        ELSE IF Len(t) = 1 \/ HexDigit(t[2]) < 0 THEN HexDigit(t[1])
        ELSE 16 * HexDigit(t[1]) + HexDigit(t[2])

\* an element store into a Uint8Array: NaN is stored as 0
ToUint8(n) == IF n < 0 THEN 0 ELSE n % 256

\* hexToBytes(hex) of a value that is not undefined or null.  A string gives
\* floor(length / 2) bytes (the store of an odd last character falls outside
\* the array); a number has no length, which gives the empty array.
hexToBytes(hex) ==
    IF hex.type = "string"
    THEN [i \in 1..(Len(hex.str) \div 2) |->
            ToUint8(ParseInt16(SubSeq(hex.str, 2 * i - 1, 2 * i)))]
    ELSE <<>>

(***************************************************************************)
(* The claim (a kind 27235 event) and its digest                           *)
(***************************************************************************)

\* JSON.stringify of an array element: undefined is written as null
JsonValue(v) == IF v.type = "undefined" THEN Null ELSE v

\* JSON.stringify([0, pubkey, created_at, kind, tags, content]); the text is
\* modelled by the tuple of the values it writes
Serialize(event) ==
    <<Num(0), JsonValue(event.pubkey), JsonValue(event.created_at),
      JsonValue(event.kind),
      IF event.tags.type = "array" THEN event.tags ELSE [type |-> "null", items |-> <<>>],
      JsonValue(event.content)>>

\* sha256 is modelled as collision free: two digests are equal exactly when
\* the texts are; bytesToHex(hash) is the string an id is compared with
Sha256(serialized) == [sha256 |-> serialized]

\* schnorr.verify(sigBytes, hash, pubkeyBytes): `signed` is the one signature
\* that exists for the request (its bytes, the digest it was made over and the
\* key that made it); a signature or key of the wrong length raises
VerifyThrows(sigBytes, pubkeyBytes, signed) ==
    Len(sigBytes) # Len(signed.sig) \/ Len(pubkeyBytes) # Len(signed.key)

SchnorrVerify(sigBytes, hash, pubkeyBytes, signed) ==
    sigBytes = signed.sig /\ hash = signed.msg /\ pubkeyBytes = signed.key

(***************************************************************************)
(* validateNip98Auth                                                       *)
(***************************************************************************)

KIND_HTTP_AUTH == 27235
MAX_SKEW == 60

Reject(reason) == [valid |-> FALSE, threw |-> FALSE, error |-> reason, pubkey |-> <<>>]
Accept(pubkey) == [valid |-> TRUE, threw |-> FALSE, error |-> "none", pubkey |-> pubkey]
\* a TypeError that no try block of the function catches
Throw == [valid |-> FALSE, threw |-> TRUE, error |-> "TypeError", pubkey |-> <<>>]

\* (mutant) the last tag of the name is taken instead of the first
FindTagLast(items, name) ==
    LET named == {i \in 1..Len(items) : Len(items[i]) >= 1 /\ items[i][1] = Str(name)}
    IN  IF named = {} THEN 0 ELSE CHOOSE i \in named : \A j \in named : j <= i

\* event.tags.find((t) => t[0] === name): the index of the first such tag, or 0
RECURSIVE FindTagFrom(_, _, _)
FindTagFrom(items, name, i) ==
    IF i > Len(items) THEN 0
    ELSE IF Len(items[i]) >= 1 /\ items[i][1] = Str(name) THEN i
    ELSE FindTagFrom(items, name, i + 1)

FindTag(items, name) == FindTagFrom(items, name, 1)

\* t[1] of a tag: undefined when the tag has one element
TagValue(tag) == IF Len(tag) >= 2 THEN tag[2] ELSE Undefined

KindCheck(event) == event.kind.type = "number" /\ event.kind.num = KIND_HTTP_AUTH

\* (mutant) the bound itself is outside the window: >= 60 instead of > 60
TimestampCheckStrict(event, now) ==
    LET created == ToNumber(event.created_at)
    IN  ~(~created.nan /\ Abs(now - created.num) >= MAX_SKEW)

\* (mutant) Math.abs is left out: only claims from the past expire
TimestampCheckOneSided(event, now) ==
    LET created == ToNumber(event.created_at)
    IN  ~(~created.nan /\ now - created.num > MAX_SKEW)

\* Math.abs(now - event.created_at) > 60 is false when the difference is NaN
TimestampCheck(event, now) ==
    LET created == ToNumber(event.created_at)
    IN  ~(~created.nan /\ Abs(now - created.num) > MAX_SKEW)

\* "pass", "fail" or "throw".  normalizeUrlForComparison of a value that is
\* not a string throws in new URL() and again, uncaught, in its catch block.
UrlCheck(event, url) ==
    IF event.tags.type # "array" THEN "throw"
    ELSE LET i == FindTag(event.tags.items, <<"u">>)
         IN  IF i = 0 THEN "fail"
             ELSE LET value == TagValue(event.tags.items[i])
                  IN  IF value.type # "string" THEN "throw"
                      ELSE LET normalizedEventUrl == normalizeUrlForComparison(value.str)
                           IN  IF normalizedEventUrl # <<>>
                                    /\ normalizedEventUrl = normalizeUrlForComparison(url)
                               THEN "pass" ELSE "fail"

\* "pass", "fail" or "throw": methodTag[1].toUpperCase() of a value that is
\* not a string raises a TypeError
MethodCheck(event, method) ==
    LET i == FindTag(event.tags.items, <<"method">>)
    IN  IF i = 0 THEN "fail"
        ELSE LET value == TagValue(event.tags.items[i])
             IN  IF value.type # "string" THEN "throw"
                 ELSE IF ToUpperCase(value.str) = ToUpperCase(method)
                 THEN "pass" ELSE "fail"

\* computedId === event.id
IdCheck(event) == event.id.type = "string" /\ event.id.digestOf = Sha256(Serialize(event))

\* "pass", "invalid" (verify returned false) or "failed" (the try block caught)
SignatureCheck(event, signed) ==
    IF IsNullish(event.sig) \/ IsNullish(event.pubkey) THEN "failed"
    ELSE LET sigBytes    == hexToBytes(event.sig)
             pubkeyBytes == hexToBytes(event.pubkey)
         IN  IF VerifyThrows(sigBytes, pubkeyBytes, signed) THEN "failed"
             ELSE IF SchnorrVerify(sigBytes, Sha256(Serialize(event)), pubkeyBytes, signed)
             THEN "pass" ELSE "invalid"

\* env.NOSTR_AUTH_MODE || "open"
AuthMode(env) == IF env.mode.type = "string" /\ env.mode.str # <<>> THEN env.mode.str ELSE <<"open">>

WhitelistMode(env) == AuthMode(env) = <<"whitelist">>

\* (mutant) the entries of the list are trimmed but not lower-cased
AllowedPubkeysCaseSensitive(env) ==
    LET text == IF env.allowed.type = "string" THEN env.allowed.str ELSE <<>>
    IN  FilterSeq(NonEmpty, MapSeq(Trim, Split(text, ",")))

\* (env.NOSTR_ALLOWED_PUBKEYS || "").split(",").map(trim, lower).filter(nonempty)
AllowedPubkeys(env) ==
    LET text  == IF env.allowed.type = "string" THEN env.allowed.str ELSE <<>>
        TrimLower(p) == ToLowerCase(Trim(p))
    IN  FilterSeq(NonEmpty, MapSeq(TrimLower, Split(text, ",")))

Includes(list, x) == \E i \in 1..Len(list) : list[i] = x

WhitelistCheck(event, env) ==
    WhitelistMode(env) => Includes(AllowedPubkeys(env), ToLowerCase(event.pubkey.str))

\* (mutant) the id is verified before the URL and the method
ValidateEventIdFirst(event, req) ==
    IF ~KindCheck(event) THEN Reject("Invalid event kind")
    ELSE IF ~TimestampCheck(event, req.now) THEN Reject("Event timestamp expired")
    ELSE IF ~IdCheck(event) THEN Reject("Event ID verification failed")
    ELSE IF UrlCheck(event, req.url) = "throw" THEN Throw
    ELSE IF UrlCheck(event, req.url) = "fail" THEN Reject("URL mismatch")
    ELSE IF MethodCheck(event, req.method) = "throw" THEN Throw
    ELSE IF MethodCheck(event, req.method) = "fail" THEN Reject("Method mismatch")
    ELSE IF SignatureCheck(event, req.signed) = "invalid" THEN Reject("Invalid signature")
    ELSE IF SignatureCheck(event, req.signed) = "failed"
         THEN Reject("Signature verification failed")
    ELSE IF ~WhitelistCheck(event, req.env) THEN Reject("Pubkey not in whitelist")
    ELSE Accept(event.pubkey.str)

\* the checks on a decoded event, in the order of the code
ValidateEvent(event, req) ==
    IF ~KindCheck(event) THEN Reject("Invalid event kind")
    ELSE IF ~TimestampCheck(event, req.now) THEN Reject("Event timestamp expired")
    ELSE IF UrlCheck(event, req.url) = "throw" THEN Throw
    ELSE IF UrlCheck(event, req.url) = "fail" THEN Reject("URL mismatch")
    ELSE IF MethodCheck(event, req.method) = "throw" THEN Throw
    ELSE IF MethodCheck(event, req.method) = "fail" THEN Reject("Method mismatch")
    ELSE IF ~IdCheck(event) THEN Reject("Event ID verification failed")
    ELSE IF SignatureCheck(event, req.signed) = "invalid" THEN Reject("Invalid signature")
    ELSE IF SignatureCheck(event, req.signed) = "failed"
         THEN Reject("Signature verification failed")
    ELSE IF ~WhitelistCheck(event, req.env) THEN Reject("Pubkey not in whitelist")
    ELSE Accept(event.pubkey.str)

\* the header is absent, does not match /^Nostr\s+(.+)$/i, or carries a
\* payload that atob and JSON.parse decode or not; event.kind of a payload
\* that is JSON null raises a TypeError outside the try block
validateNip98Auth(req) ==
    LET header == req.header
    IN  IF header.type = "absent" THEN Reject("Missing Authorization header")
        ELSE IF header.type # "nostr" THEN Reject("Invalid Authorization format")
        ELSE IF ~header.decodes THEN Reject("Invalid base64 or JSON")
        ELSE IF header.payload = "null" THEN Throw
        ELSE ValidateEvent(header.event, req)

(***************************************************************************)
(* The path policy                                                         *)
(***************************************************************************)

requiresNip98Auth(path) ==
    ~(path = <<"/">> \/ path = <<"/", "health">> \/ StartsWith(path, <<"/", "static", "/">>))

ALLOWED_ENDPOINTS == <<
    <<"/", "search">>,
    <<"/", "lookup">>,
    <<"/", "search", "/", "byterm">>,
    <<"/", "search", "/", "bytitle">>,
    <<"/", "search", "/", "byperson">>,
    <<"/", "search", "/", "music", "/", "byterm">>,
    <<"/", "podcasts", "/", "byfeedid">>,
    <<"/", "podcasts", "/", "byfeedurl">>,
    <<"/", "podcasts", "/", "byitunesid">>,
    <<"/", "podcasts", "/", "byguid">>,
    <<"/", "podcasts", "/", "bytag">>,
    <<"/", "podcasts", "/", "bymedium">>,
    <<"/", "podcasts", "/", "trending">>,
    <<"/", "podcasts", "/", "dead">>,
    <<"/", "episodes", "/", "byfeedid">>,
    <<"/", "episodes", "/", "byfeedurl">>,
    <<"/", "episodes", "/", "byitunesid">>,
    <<"/", "episodes", "/", "byguid">>,
    <<"/", "episodes", "/", "byid">>,
    <<"/", "episodes", "/", "bypodcastguid">>,
    <<"/", "episodes", "/", "live">>,
    <<"/", "episodes", "/", "random">>,
    <<"/", "recent", "/", "episodes">>,
    <<"/", "recent", "/", "feeds">>,
    <<"/", "recent", "/", "newfeeds">>,
    <<"/", "recent", "/", "newvaluefeeds">>,
    <<"/", "recent", "/", "data">>,
    <<"/", "recent", "/", "soundbites">>,
    <<"/", "value", "/", "byfeedid">>,
    <<"/", "value", "/", "byfeedurl">>,
    <<"/", "value", "/", "bypodcastguid">>,
    <<"/", "value", "/", "byepisodeguid">>,
    <<"/", "stats", "/", "current">>,
    <<"/", "categories", "/", "list">>,
    <<"/", "hub", "/", "pubnotify">>,
    <<"/", "static", "/", "stats", "/", "daily_counts.json">>,
    <<"/", "static", "/", "stats", "/", "hourly_counts.json">>,
    <<"/", "static", "/", "stats", "/", "chart-data.json">>,
    <<"/", "static", "/", "stats", "/", "v4vmusic.json">>,
    <<"/", "static", "/", "stats", "/", "v4vmusic.opml">>,
    <<"/", "static", "/", "stats", "/", "v4vmusic.rss">>,
    <<"/", "static", "/", "tracking", "/", "current">>,
    <<"/", "static", "/", "tracking", "/", "feedValueBlocks">>,
    <<"/", "static", "/", "tracking", "/", "episodeValueBlocks">>,
    <<"/", "static", "/", "public", "/", "podcastindex_dead_feeds.csv">>,
    <<"/", "static", "/", "public", "/", "podcastindex_feeds.db.tgz">> >>

NO_AUTH_PREFIXES == <<
    <<"/", "search">>,
    <<"/", "lookup">>,
    <<"/", "value", "/">>,
    <<"/", "hub", "/">>,
    <<"/", "static", "/">> >>

AUTH_REQUIRED_SEARCH == <<
    <<"/", "search", "/", "byterm">>,
    <<"/", "search", "/", "bytitle">>,
    <<"/", "search", "/", "byperson">>,
    <<"/", "search", "/", "music", "/", "byterm">> >>

\* list.some(entry => path.startsWith(entry))
SomeStartsWith(list, path) == \E i \in 1..Len(list) : StartsWith(path, list[i])

\* (mutant) the no-auth prefixes are looked at before the search overrides
requiresAuthPrefixFirst(path) ==
    IF SomeStartsWith(NO_AUTH_PREFIXES, path) THEN FALSE
    ELSE IF SomeStartsWith(AUTH_REQUIRED_SEARCH, path) THEN TRUE
    ELSE TRUE

requiresAuth(path) ==
    IF SomeStartsWith(AUTH_REQUIRED_SEARCH, path) THEN TRUE
    ELSE IF SomeStartsWith(NO_AUTH_PREFIXES, path) THEN FALSE
    ELSE TRUE

isStaticEndpoint(path) == StartsWith(path, <<"/", "static", "/">>)

isAllowedEndpoint(path) == SomeStartsWith(ALLOWED_ENDPOINTS, path)

\* the headers generateAuthHeaders returns, by name
generateAuthHeaders == {"User-Agent", "X-Auth-Key", "X-Auth-Date", "Authorization"}

PODCAST_INDEX_API == <<"https://api.podcastindex.org", "/", "api", "/", "1.0">>
PODCAST_INDEX_STATIC == <<"https://api.podcastindex.org">>

(***************************************************************************)
(* The requests the worker receives                                        *)
(***************************************************************************)

\* the longest tag list combined with every value of the other fields, and
\* the longest tag list of all
FewTags == 2
MaxTags == 3

RECURSIVE SeqsUpTo(_, _)
SeqsUpTo(S, n) ==
    IF n = 0 THEN {<<>>}
    ELSE LET shorter == SeqsUpTo(S, n - 1)
         IN  shorter \cup {Append(l, x) : l \in shorter, x \in S}

GET     == <<"G", "E", "T">>
POST    == <<"P", "O", "S", "T">>
OPTIONS == <<"O", "P", "T", "I", "O", "N", "S">>

\* Date.now() / 1000 at the time of the request
Nows == {1000}

\* the signer's key, the bytes of its signature, and both in hexadecimal
KeyBytes == <<171>>
SigBytes == <<171, 1>>
PubkeyHex == <<"a", "B">>
SigHex == <<"a", "b", "0", "1">>

NoQuery == <<>>
QueryBA == <<"?", "b", "&", "a">>
\* the same parameters in the other order, with a trailing "&"
QueryAB == <<"?", "a", "&", "b", "&">>

RequestUrl(path, query) == <<"https://h">> \o path \o query

TagU(url)  == <<Str(<<"u">>), Str(url)>>
TagM(name) == <<Str(<<"method">>), Str(name)>>

\* the tags a claim for the request path may carry: the request URL with its
\* parameters reordered, another URL, the method in lower case, another method
TagChoices(path) ==
    { TagU(RequestUrl(path, QueryAB)),
      TagU(RequestUrl(<<"/", "other">>, NoQuery)),
      TagM(<<"g", "e", "t">>),
      TagM(<<"p", "o", "s", "t">>) }

\* tag lists with a tag of one or of three elements
OddTagLists(path) ==
    { << <<Str(<<"u">>)>>, TagM(GET) >>,
      << TagU(RequestUrl(path, QueryBA)), <<Str(<<"method">>)>> >>,
      << Append(TagU(RequestUrl(path, QueryBA)), Str(<<"a">>)), TagM(GET) >> }

TagsValues(path) ==
    {[type |-> "array", items |-> l] :
        l \in SeqsUpTo(TagChoices(path), FewTags) \cup OddTagLists(path)}
      \cup {[type |-> "undefined", items |-> <<>>]}

ManyTagsValues(path) ==
    {[type |-> "array", items |-> l] : l \in SeqsUpTo(TagChoices(path), MaxTags)}

KindValues == {Num(KIND_HTTP_AUTH), Num(1), Str(<<"2", "7", "2", "3", "5">>)}

CreatedAtValues(now) ==
    { Num(now - MAX_SKEW - 1), Num(now - MAX_SKEW), Num(now + MAX_SKEW),
      Num(now + MAX_SKEW + 1), Undefined }

\* the signature field: the signature in lower-case hex, with one letter in
\* upper case, with another last byte, and a number instead of a string
SigValues ==
    { Str(SigHex), Str(<<"A", "b", "0", "1">>), Str(<<"a", "b", "0", "2">>), Num(1) }

UnsignedEvent(kind, created, tags, sig) ==
    [kind |-> kind, created_at |-> created, tags |-> tags, pubkey |-> Str(PubkeyHex),
     content |-> Str(<<>>), sig |-> sig,
     id |-> [type |-> "string", digestOf |-> Sha256(<<>>)]]

\* the id is the digest of the event as serialized, or another digest
WithId(event, ownId) ==
    IF ownId THEN [event EXCEPT !.id.digestOf = Sha256(Serialize(event))] ELSE event

\* an event with no field at all (also what a JSON number or string reads as)
EmptyEvent ==
    [kind |-> Undefined, created_at |-> Undefined,
     tags |-> [type |-> "undefined", items |-> <<>>], pubkey |-> Undefined,
     content |-> Undefined, sig |-> Undefined,
     id |-> [type |-> "undefined", digestOf |-> Sha256(<<>>)]]

NoHeader == [type |-> "absent", decodes |-> FALSE, payload |-> "none", event |-> EmptyEvent]

\* "Bearer x"; "Nostr" and "nostr" with a payload that is not base64 of JSON;
\* base64 of the JSON texts null and {}
PlainHeaders ==
    { NoHeader,
      [NoHeader EXCEPT !.type = "other"],
      [NoHeader EXCEPT !.type = "nostr"],
      [NoHeader EXCEPT !.type = "nostr", !.decodes = TRUE, !.payload = "null"],
      [NoHeader EXCEPT !.type = "nostr", !.decodes = TRUE, !.payload = "object"] }

EventHeader(event) ==
    [type |-> "nostr", decodes |-> TRUE, payload |-> "object", event |-> event]

\* the signature the key holder made: over the digest of the event sent, or
\* (a signature lifted from elsewhere) over another digest
Signed(event, overEvent) ==
    [sig |-> SigBytes, key |-> KeyBytes,
     msg |-> IF overEvent THEN Sha256(Serialize(event)) ELSE Sha256(<<>>)]

ListWithKey    == Str(<<" ", "A", "b", " ", ",", ",", "c", "d">>)
ListWithoutKey == Str(<<"c", "d">>)

Env(mode, allowed, configured) == [mode |-> mode, allowed |-> allowed, configured |-> configured]

\* NOSTR_AUTH_MODE and NOSTR_ALLOWED_PUBKEYS, with the upstream key configured
AuthEnvs ==
    { Env(Undefined, Undefined, TRUE),
      Env(Str(<<"open">>), ListWithoutKey, TRUE),
      Env(Str(<<"restricted">>), ListWithoutKey, TRUE),
      Env(Str(<<"whitelist">>), ListWithoutKey, TRUE),
      Env(Str(<<"whitelist">>), ListWithKey, TRUE) }

Request(method, path, query, header, env, now, signed) ==
    [method |-> method, url |-> RequestUrl(path, query), header |-> header,
     env |-> env, now |-> now, signed |-> signed]

ClaimPath == <<"/", "podcasts", "/", "trending">>

\* the tag lists of the claims for ClaimPath
ClaimTags == TagsValues(ClaimPath)
ManyClaimTags == ManyTagsValues(ClaimPath)

\* a claim that passes every check of the open mode, for the path
GoodEvent(path, now) ==
    WithId(UnsignedEvent(Num(KIND_HTTP_AUTH), Num(now),
                         [type |-> "array",
                          items |-> <<TagU(RequestUrl(path, QueryAB)), TagM(GET)>>],
                         Str(SigHex)), TRUE)

OtherPaths ==
    { <<"/">>, <<"/", "health">>, <<"/", "health", "z">>,
      <<"/", "static">>, <<"/", "static", "/", "x">>,
      <<"/", "static", "/", "stats", "/", "daily_counts.json">>,
      <<"/", "search">>, <<"/", "search", "/", "byterm">>, <<"/", "value">>,
      <<"/", "value", "/", "byfeedid">>, <<"/", "nope">>, ClaimPath,
      <<"/", "search", "x">>, <<"/", "search", "/", "bytitle">>,
      <<"/", "search", "/", "byperson">>, <<"/", "search", "/", "music">>,
      <<"/", "search", "/", "music", "/", "byterm">>, <<"/", "lookup">>,
      <<"/", "hub", "/", "pubnotify">>, <<"/", "stats", "/", "current">> }

\* a header that is no claim, or a good claim for the path, and the signature
\* that exists: made over that claim, or lifted from another event
OtherHeaders(path, now) ==
    {<<h, Signed(EmptyEvent, FALSE)>> : h \in PlainHeaders}
        \cup {<<EventHeader(GoodEvent(path, now)), Signed(GoodEvent(path, now), own)>> :
                own \in BOOLEAN}

(***************************************************************************)
(* The fetch handler, one action for each stretch between its awaits       *)
(***************************************************************************)

Idle == Request(<<>>, <<>>, NoQuery, NoHeader, Env(Undefined, Undefined, FALSE), 0,
                Signed(EmptyEvent, FALSE))
NoResult == [valid |-> FALSE, threw |-> FALSE, error |-> "none", pubkey |-> <<>>]
NoResponse == [status |-> 0, error |-> "none"]

Path(req) == UrlPathname(req.url)

HandlerIdle ==
    /\ request = Idle
    /\ pc = "idle"
    /\ authResult = NoResult
    /\ response = NoResponse
    /\ upstream = <<>>

CanonIdle == canon = [in |-> <<>>, once |-> <<>>, twice |-> <<>>, stage |-> "none"]

Init == CanonIdle /\ HandlerIdle

Arrive(req) ==
    /\ request' = req
    /\ pc' = "start"
    /\ authResult' = NoResult
    /\ response' = NoResponse
    /\ upstream' = <<>>
    /\ UNCHANGED canon

\* a GET request for a proxied path arrives with a claim: every combination
\* of the field values of the model, under every configuration
ReceiveClaim ==
    /\ pc = "idle"
    /\ \E tags \in ClaimTags, now \in Nows, env \in AuthEnvs, kind \in KindValues,
          sig \in SigValues, ownId \in BOOLEAN :
        \E created \in CreatedAtValues(now) :
            LET event == WithId(UnsignedEvent(kind, created, tags, sig), ownId)
            IN  Arrive(Request(GET, ClaimPath, QueryBA, EventHeader(event), env, now,
                               Signed(event, TRUE)))

\* a GET request for a proxied path arrives with a claim that carries up to
\* MaxTags tags: a right or a wrong kind, issued at the edge of the window or
\* just after it, a right or a wrong signature and id, with and without the
\* list of allowed keys
ReceiveManyTags ==
    /\ pc = "idle"
    /\ \E tags \in ManyClaimTags, now \in Nows, kind \in {Num(KIND_HTTP_AUTH), Num(1)},
          sig \in {Str(SigHex), Str(<<"a", "b", "0", "2">>)}, ownId \in BOOLEAN,
          env \in {Env(Undefined, Undefined, TRUE),
                   Env(Str(<<"whitelist">>), ListWithoutKey, TRUE)} :
        \E created \in {Num(now + MAX_SKEW), Num(now + MAX_SKEW + 1)} :
            LET event == WithId(UnsignedEvent(kind, created, tags, sig), ownId)
            IN  Arrive(Request(GET, ClaimPath, QueryBA, EventHeader(event), env, now,
                               Signed(event, TRUE)))

\* a request for any path and method arrives: without a header, with a header
\* that is no claim, with a good claim or with a signature lifted from another
\* event; with and without the upstream key configured
ReceiveOther ==
    /\ pc = "idle"
    /\ \E method \in {GET, POST, OPTIONS}, path \in OtherPaths, now \in Nows,
          configured \in BOOLEAN :
        \E hs \in OtherHeaders(path, now) :
            Arrive(Request(method, path, QueryBA, hs[1],
                           Env(Undefined, Undefined, configured), now, hs[2]))

Respond(status, error) ==
    /\ response' = [status |-> status, error |-> error]
    /\ pc' = "done"

\* the preflight, the method check, the health check, and whether the path
\* needs a claim
Route ==
    /\ pc = "start"
    /\ IF request.method = OPTIONS THEN Respond(200, "none")
       ELSE IF request.method # GET THEN Respond(405, "Method not allowed")
       ELSE IF Path(request) = <<"/">> \/ Path(request) = <<"/", "health">>
            THEN Respond(200, "none")
       ELSE /\ pc' = IF requiresNip98Auth(Path(request)) THEN "auth" ELSE "endpoint"
            /\ UNCHANGED response
    /\ UNCHANGED <<canon, request, authResult, upstream>>

\* await validateNip98Auth(request, env): a rejection is answered with 401; an
\* exception leaves the handler (the runtime answers, not the worker)
Authenticate ==
    /\ pc = "auth"
    /\ authResult' = validateNip98Auth(request)
    /\ IF authResult'.threw THEN Respond(0, "uncaught exception")
       ELSE IF ~authResult'.valid THEN Respond(401, "Unauthorized")
       ELSE pc' = "endpoint" /\ UNCHANGED response
    /\ UNCHANGED <<canon, request, upstream>>

\* the endpoint list and the upstream credentials
CheckEndpoint ==
    /\ pc = "endpoint"
    /\ IF ~isAllowedEndpoint(Path(request)) THEN Respond(403, "Endpoint not allowed")
       ELSE IF requiresAuth(Path(request)) /\ ~request.env.configured
            THEN Respond(500, "API credentials not configured")
       ELSE pc' = "forward" /\ UNCHANGED response
    /\ UNCHANGED <<canon, request, authResult, upstream>>

\* fetch(apiUrl, {method: "GET", headers})
Forward ==
    /\ pc = "forward"
    /\ LET path    == Path(request)
           headers == IF requiresAuth(path) THEN {"User-Agent"} \cup generateAuthHeaders
                      ELSE {"User-Agent"}
           baseUrl == IF isStaticEndpoint(path) THEN PODCAST_INDEX_STATIC
                      ELSE PODCAST_INDEX_API
       IN  upstream' = Append(upstream,
                [url |-> baseUrl \o path \o UrlSearch(request.url), headers |-> headers])
    /\ pc' = "upstream"
    /\ UNCHANGED <<canon, request, authResult, response>>

\* the upstream answers, and its status is passed on; or the fetch fails
Relay ==
    /\ pc = "upstream"
    /\ \E outcome \in {[status |-> 200, error |-> "none"],
                       [status |-> 404, error |-> "none"],
                       [status |-> 500, error |-> "Proxy error"]} :
          Respond(outcome.status, outcome.error)
    /\ UNCHANGED <<canon, request, authResult, upstream>>

\* the response is sent; the worker keeps nothing of the request
Complete ==
    /\ pc = "done"
    /\ request' = Idle
    /\ pc' = "idle"
    /\ authResult' = NoResult
    /\ response' = NoResponse
    /\ upstream' = <<>>
    /\ UNCHANGED canon

Next ==
    \/ ReceiveClaim
    \/ ReceiveManyTags
    \/ ReceiveOther
    \/ Route
    \/ Authenticate
    \/ CheckEndpoint
    \/ Forward
    \/ Relay
    \/ Complete

Spec == Init /\ [][Next]_vars

(***************************************************************************)
(* The canonicalizer on its own: every input string up to MaxUrlLen         *)
(***************************************************************************)

MaxUrlLen == 5

UrlAlphabet == {"/", "?", "&", "=", ",", "+", "a"}

StringsUpTo(alphabet, n) == UNION {[1..k -> alphabet] : k \in 0..n}

\* absolute URLs, and strings new URL() rejects (no scheme)
UrlInputs ==
    {<<o>> \o r : o \in Origins, r \in StringsUpTo(UrlAlphabet, MaxUrlLen)}
        \cup (StringsUpTo(UrlAlphabet, MaxUrlLen - 1) \ {<<>>})

InitUrl ==
    /\ canon \in [in : UrlInputs, once : {<<>>}, twice : {<<>>}, stage : {"input"}]
    /\ HandlerIdle

Normalize ==
    /\ canon.stage = "input"
    /\ canon' = [canon EXCEPT !.once = normalizeUrlForComparison(canon.in),
                              !.stage = "once"]
    /\ UNCHANGED <<request, pc, authResult, response, upstream>>

NormalizeAgain ==
    /\ canon.stage = "once"
    /\ canon' = [canon EXCEPT !.twice = normalizeUrlForComparison(canon.once),
                              !.stage = "twice"]
    /\ UNCHANGED <<request, pc, authResult, response, upstream>>

NextUrl == Normalize \/ NormalizeAgain

SpecUrl == InitUrl /\ [][NextUrl]_vars

(***************************************************************************)
(* Vocabulary of the properties                                            *)
(***************************************************************************)

Event == request.header.event

\* the request carries a payload that decoded to an object
HasEvent ==
    /\ request.header.type = "nostr"
    /\ request.header.decodes
    /\ request.header.payload = "object"

\* validateNip98Auth has run for the request of this state
AuthRan == authResult # NoResult

Unauthorized == [status |-> 401, error |-> "Unauthorized"]

\* a path that never needs a claim, in the words of the documentation
ExemptPath(path) ==
    path = <<"/">> \/ path = <<"/", "health">> \/ StartsWith(path, <<"/", "static", "/">>)

IsGet(req) == req.method = GET

Forwarded == upstream # <<>>

KindIsHttpAuth(event) == event.kind = Num(27235)

InWindow(event, now) ==
    event.created_at.type = "number" /\ Abs(now - event.created_at.num) <= 60

OutOfWindow(event, now) ==
    event.created_at.type = "number" /\ Abs(now - event.created_at.num) > 60

IsPair(tag) == Len(tag) = 2 /\ tag[1].type = "string" /\ tag[2].type = "string"

TagsAreArray(event) == event.tags.type = "array"

\* the positions of the tags with this name
TagsNamed(event, name) ==
    {i \in 1..Len(event.tags.items) :
        Len(event.tags.items[i]) >= 1 /\ event.tags.items[i][1] = Str(name)}

\* the first tag with this name (there is one)
FirstNamed(event, name) ==
    event.tags.items[CHOOSE i \in TagsNamed(event, name) :
                        \A j \in TagsNamed(event, name) : i <= j]

HasStringValue(tag) == Len(tag) >= 2 /\ tag[2].type = "string"

UrlMatches(tag, url) ==
    /\ HasStringValue(tag)
    /\ normalizeUrlForComparison(tag[2].str) = normalizeUrlForComparison(url)

MethodMatches(tag, method) ==
    /\ HasStringValue(tag)
    /\ ToUpperCase(tag[2].str) = ToUpperCase(method)

SomeUrlTagMatches(event, url) ==
    \E i \in TagsNamed(event, <<"u">>) : UrlMatches(event.tags.items[i], url)

SomeMethodTagMatches(event, method) ==
    \E i \in TagsNamed(event, <<"method">>) : MethodMatches(event.tags.items[i], method)

FirstUrlTagMatches(event, url) ==
    TagsNamed(event, <<"u">>) # {} /\ UrlMatches(FirstNamed(event, <<"u">>), url)

FirstMethodTagMatches(event, method) ==
    TagsNamed(event, <<"method">>) # {}
        /\ MethodMatches(FirstNamed(event, <<"method">>), method)

IdIsDigest(event) == event.id = [type |-> "string", digestOf |-> Sha256(Serialize(event))]

SignatureValid(event, signed) ==
    /\ event.sig.type = "string"
    /\ event.pubkey.type = "string"
    /\ SchnorrVerify(hexToBytes(event.sig), Sha256(Serialize(event)),
                     hexToBytes(event.pubkey), signed)

\* the pubkey, lower-cased, is an entry of the comma-separated list, the
\* entries trimmed and lower-cased
Listed(event, env) ==
    /\ event.pubkey.type = "string"
    /\ env.allowed.type = "string"
    /\ LET entries == Split(env.allowed.str, ",")
       IN  \E i \in 1..Len(entries) :
              /\ Trim(entries[i]) # <<>>
              /\ ToLowerCase(Trim(entries[i])) = ToLowerCase(event.pubkey.str)

ModeIs(env, names) == env.mode.type = "string" /\ env.mode.str \in names

SignatureFailure(result) ==
    /\ ~result.valid
    /\ ~result.threw
    /\ result.error \in {"Invalid signature", "Signature verification failed"}

\* a claim as the data model has it: a numeric created_at, tags an array of
\* string pairs
WellTyped(event) ==
    /\ event.created_at.type = "number"
    /\ TagsAreArray(event)
    /\ \A i \in 1..Len(event.tags.items) : IsPair(event.tags.items[i])

\* what validation returns for the request of this state in the open mode
PassesOtherChecks == validateNip98Auth([request EXCEPT !.env.mode = Undefined]).valid

(***************************************************************************)
(* C1  the claim gate of the fetch handler                                 *)
(***************************************************************************)

\* C1: for every GET request whose path is not "/", not "/health" and does
\* not start with "/static/", the upstream is contacted only after
\* validateNip98Auth returned valid for that request; when validation does
\* not accept, the response is 401 "Unauthorized" and nothing is fetched
\* upstream; the three exempt kinds of path are never validated.
C1_GateOr401 ==
    /\ Forwarded /\ ~ExemptPath(Path(request))
          => authResult.valid /\ authResult = validateNip98Auth(request)
    /\ pc = "done" /\ IsGet(request) /\ ~ExemptPath(Path(request))
            /\ ~validateNip98Auth(request).valid
          => response = Unauthorized /\ ~Forwarded
    /\ ExemptPath(Path(request)) => ~AuthRan

(***************************************************************************)
(* C2  acceptance                                                          *)
(***************************************************************************)

C2_Preconditions(UrlBound(_, _), MethodBound(_, _)) ==
    /\ HasEvent
    /\ KindIsHttpAuth(Event)
    /\ InWindow(Event, request.now)
    /\ TagsAreArray(Event)
    /\ UrlBound(Event, request.url)
    /\ MethodBound(Event, request.method)
    /\ IdIsDigest(Event)
    /\ SignatureValid(Event, request.signed)
    /\ (ModeIs(request.env, {<<"whitelist">>, <<"restricted">>})
            => Listed(Event, request.env))

\* C2 as claimed: a claim of kind 27235 with |now - created_at| <= 60, a "u"
\* tag that canonicalizes equal to the request URL, a "method" tag equal to
\* the request method ignoring case, its id the recomputed digest, a valid
\* signature and (in restricted mode) a listed pubkey is accepted, and the
\* result carries the claim's pubkey.
C2_AnyMatchingTagAccepted ==
    AuthRan /\ C2_Preconditions(SomeUrlTagMatches, SomeMethodTagMatches)
        => authResult = Accept(Event.pubkey.str)

\* C2 as amended: the same, with the first "u" tag and the first "method"
\* tag of the claim the ones that match (the validator looks at no other).
C2_FirstMatchingTagAccepted ==
    AuthRan /\ C2_Preconditions(FirstUrlTagMatches, FirstMethodTagMatches)
        => authResult = Accept(Event.pubkey.str)

\* a claim issued exactly 60 seconds ahead of the clock, its URL parameters in
\* another order than the request's, accepted in whitelist mode
C2_Witness ==
    /\ AuthRan
    /\ C2_Preconditions(FirstUrlTagMatches, FirstMethodTagMatches)
    /\ Event.created_at.num = request.now + 60
    /\ FirstNamed(Event, <<"u">>)[2].str # request.url
    /\ ModeIs(request.env, {<<"whitelist">>})
    /\ authResult.valid

(***************************************************************************)
(* C3  the timestamp window                                                *)
(***************************************************************************)

\* C3 as claimed: every claim with |now - created_at| > 60 is rejected with
\* "Event timestamp expired", whatever its signature.
C3_ExpiredReasonAlways ==
    AuthRan /\ HasEvent /\ OutOfWindow(Event, request.now)
        => authResult = Reject("Event timestamp expired")

\* C3 as amended: every claim of kind 27235 with |now - created_at| > 60 is
\* rejected with "Event timestamp expired", whatever its signature (a claim
\* of another kind is rejected for its kind first); and no claim with
\* |now - created_at| > 60 is accepted or forwarded.
C3_ExpiredAfterKind ==
    /\ AuthRan /\ HasEvent /\ OutOfWindow(Event, request.now) /\ KindIsHttpAuth(Event)
          => authResult = Reject("Event timestamp expired")
    /\ HasEvent /\ OutOfWindow(Event, request.now) /\ ~ExemptPath(Path(request))
          => ~authResult.valid /\ ~Forwarded

\* a claim 61 seconds ahead of the clock whose tags, id and signature are all
\* good, rejected as expired
C3_Witness ==
    /\ AuthRan /\ HasEvent
    /\ KindIsHttpAuth(Event)
    /\ Event.created_at = Num(request.now + 61)
    /\ FirstUrlTagMatches(Event, request.url)
    /\ IdIsDigest(Event)
    /\ SignatureValid(Event, request.signed)
    /\ authResult = Reject("Event timestamp expired")
    /\ response = Unauthorized

(***************************************************************************)
(* C4  missing and mistyped fields                                         *)
(***************************************************************************)

Malformed(event) ==
    \/ event.created_at.type # "number"
    \/ event.kind.type # "number"
    \/ ~TagsAreArray(event)
    \/ \E i \in 1..Len(event.tags.items) : ~IsPair(event.tags.items[i])
    \/ event.id.type # "string"
    \/ event.pubkey.type # "string"
    \/ event.sig.type # "string"
    \/ event.content.type # "string"

\* C4: a decoded credential in which a required field is missing or has the
\* wrong type (created_at absent or not a number, kind not a number, tags not
\* an array of 2-element string arrays, id, pubkey, sig or content not a
\* string) is never accepted by validation and never forwarded upstream.
C4_MalformedNeverAccepted ==
    HasEvent /\ Malformed(Event) /\ ~ExemptPath(Path(request))
        => ~authResult.valid /\ ~Forwarded

(***************************************************************************)
(* C5  no exception leaves validation                                      *)
(***************************************************************************)

\* C5: for every Authorization header and every decoded payload (JSON null,
\* an object without tags, a "u" or "method" tag without a second element)
\* validation returns a rejection; no exception leaves validateNip98Auth or
\* the fetch handler, and every failure is answered with 401 Unauthorized.
C5_NoUncaughtException ==
    /\ ~authResult.threw
    /\ pc = "done" /\ AuthRan /\ ~authResult.valid => response = Unauthorized

(***************************************************************************)
(* C6  the signature string                                                *)
(***************************************************************************)

HexChars == {"0", "1", "2", "a", "b", "A", "B", "g", " "}

\* C6: changing any single character of the hex-encoded sig of an accepted
\* claim, everything else unchanged, makes validation reject with a
\* signature failure: no two different sig strings are accepted for the same
\* digest and pubkey.
C6_AnySigCharChangeRejected ==
    AuthRan /\ authResult.valid /\ WellTyped(Event) =>
        \A i \in 1..Len(Event.sig.str) :
            \A c \in HexChars \ {Event.sig.str[i]} :
                SignatureFailure(
                    validateNip98Auth([request EXCEPT !.header.event.sig.str[i] = c]))

(***************************************************************************)
(* C7  the allowlist                                                       *)
(***************************************************************************)

AllowedValues == {Undefined, ListWithKey, ListWithoutKey}

C7_Allowlist(restrictedModes) ==
    AuthRan /\ HasEvent /\ PassesOtherChecks =>
        IF ModeIs(request.env, restrictedModes)
        THEN /\ authResult.valid <=> Listed(Event, request.env)
             /\ ~Listed(Event, request.env) => authResult = Reject("Pubkey not in whitelist")
        ELSE /\ authResult.valid
             /\ \A list \in AllowedValues :
                    validateNip98Auth([request EXCEPT !.env.allowed = list]) = authResult

\* C7 as claimed: when the mode string is "whitelist" or "restricted", a claim
\* that passes every other check is accepted if and only if its pubkey,
\* lower-cased, is in the comma-separated list (entries trimmed and
\* lower-cased), and is otherwise rejected as not in the whitelist; in any
\* other mode the list is not consulted.
C7_WhitelistOrRestricted ==
    HasEvent /\ WellTyped(Event) => C7_Allowlist({<<"whitelist">>, <<"restricted">>})

\* C7 as amended: the same with "whitelist" the only mode string that
\* restricts; under "restricted", as under "open" or no mode, the list is
\* not consulted and the claim is accepted.
C7_WhitelistOnly == C7_Allowlist({<<"whitelist">>})

\* a claim whose pubkey "aB" is listed as " Ab ", accepted in whitelist mode
C7_Witness ==
    /\ AuthRan /\ HasEvent /\ PassesOtherChecks
    /\ ModeIs(request.env, {<<"whitelist">>})
    /\ Listed(Event, request.env)
    /\ ~Includes(Split(request.env.allowed.str, ","), Event.pubkey.str)
    /\ authResult = Accept(Event.pubkey.str)

(***************************************************************************)
(* C8  the order of the checks                                             *)
(***************************************************************************)

\* the rejection of the earliest failing check, in the order kind, timestamp
\* window, URL, method, digest, signature, allowlist
FirstFailure(event, req) ==
    IF ~KindIsHttpAuth(event) THEN {Reject("Invalid event kind")}
    ELSE IF OutOfWindow(event, req.now) THEN {Reject("Event timestamp expired")}
    ELSE IF ~FirstUrlTagMatches(event, req.url) THEN {Reject("URL mismatch")}
    ELSE IF ~FirstMethodTagMatches(event, req.method) THEN {Reject("Method mismatch")}
    ELSE IF ~IdIsDigest(event) THEN {Reject("Event ID verification failed")}
    ELSE IF ~SignatureValid(event, req.signed)
         THEN {Reject("Invalid signature"), Reject("Signature verification failed")}
    ELSE IF ModeIs(req.env, {<<"whitelist">>}) /\ ~Listed(event, req.env)
         THEN {Reject("Pubkey not in whitelist")}
    ELSE {Accept(event.pubkey.str)}

\* C8: the checks run in the order kind, timestamp window, URL, method,
\* digest, signature, allowlist, each short-circuiting: for every claim (a
\* numeric created_at, tags an array of string pairs) the result is the
\* rejection of the earliest failing check, whatever the later checks would
\* say, and acceptance when none fails.
C8_FirstFailureDecides ==
    AuthRan /\ HasEvent /\ WellTyped(Event) => authResult \in FirstFailure(Event, request)

\* a claim with a wrong URL, a wrong method, an id that is not its digest and
\* a wrong signature, from an unlisted key: rejected for the URL
C8_Witness ==
    /\ AuthRan /\ HasEvent /\ WellTyped(Event)
    /\ KindIsHttpAuth(Event) /\ InWindow(Event, request.now)
    /\ ~FirstUrlTagMatches(Event, request.url)
    /\ ~FirstMethodTagMatches(Event, request.method)
    /\ ~IdIsDigest(Event)
    /\ ~SignatureValid(Event, request.signed)
    /\ ModeIs(request.env, {<<"whitelist">>}) /\ ~Listed(Event, request.env)
    /\ authResult = Reject("URL mismatch")

(***************************************************************************)
(* C10  the "u" and "method" tags                                          *)
(***************************************************************************)

C10_MissingTagRejected ==
    /\ AuthRan /\ HasEvent /\ TagsAreArray(Event) /\ TagsNamed(Event, <<"u">>) = {}
          => /\ ~authResult.valid
             /\ KindIsHttpAuth(Event) /\ InWindow(Event, request.now)
                  => authResult = Reject("URL mismatch")
    /\ AuthRan /\ HasEvent /\ TagsAreArray(Event) /\ TagsNamed(Event, <<"method">>) = {}
          => /\ ~authResult.valid
             /\ KindIsHttpAuth(Event) /\ InWindow(Event, request.now)
                    /\ FirstUrlTagMatches(Event, request.url)
                  => authResult = Reject("Method mismatch")

\* C10 as claimed: a claim without a "u" tag or without a "method" tag is
\* rejected (URL mismatch, method mismatch), and an accepted claim has exactly
\* one tag named "u" and exactly one named "method".
C10_ExactlyOneOfEach ==
    /\ C10_MissingTagRejected
    /\ AuthRan /\ authResult.valid /\ WellTyped(Event)
          => /\ Cardinality(TagsNamed(Event, <<"u">>)) = 1
             /\ Cardinality(TagsNamed(Event, <<"method">>)) = 1

\* C10 as amended: a claim without a "u" tag or without a "method" tag is
\* rejected (URL mismatch, method mismatch, once the earlier checks pass),
\* and an accepted claim has at least one tag of each name, the first of each
\* being the one that matches the request; further tags of the same name are
\* ignored.
C10_FirstOfEachBinds ==
    /\ C10_MissingTagRejected
    /\ AuthRan /\ authResult.valid
          => /\ FirstUrlTagMatches(Event, request.url)
             /\ FirstMethodTagMatches(Event, request.method)

\* an accepted claim with two "u" tags, the second for another URL
C10_Witness ==
    /\ AuthRan /\ authResult.valid /\ WellTyped(Event)
    /\ Cardinality(TagsNamed(Event, <<"u">>)) = 2
    /\ \E i \in TagsNamed(Event, <<"u">>) : ~UrlMatches(Event.tags.items[i], request.url)

(***************************************************************************)
(* C9  the canonicalizer                                                   *)
(***************************************************************************)

Canonicalized == canon.stage \in {"once", "twice"} /\ IsAbsoluteUrl(canon.in)

HasQuestionMark(u) == IndexOf(u, "?") # 0

InputPairs(u) == URLSearchParams(UrlSearch(u))

IndexPerms(n) == {f \in [1..n -> 1..n] : \A i, j \in 1..n : f[i] = f[j] => i = j}

\* the URLs that differ from u only in the order of the "&"-separated
\* parameters of its query
Reorderings(u) ==
    LET q    == IndexOf(u, "?")
        segs == Split(SubSeq(u, q + 1, Len(u)), "&")
        n    == Len(segs)
    IN  IF q = 0 THEN {u}
        ELSE {SubSeq(u, 1, q) \o Join([i \in 1..n |-> segs[f[i]]], "&") : f \in IndexPerms(n)}

\* (name, value) < (name, value), lexicographically
NameValueLess(p, q) == StrLess(p[1], q[1]) \/ (p[1] = q[1] /\ StrLess(p[2], q[2]))

\* name + "," + value < name + "," + value
JoinedLess(p, q) == StrLess(PairToString(p), PairToString(q))

SortedBy(Less(_, _), ps) == \A i \in 1..(Len(ps) - 1) : ~Less(ps[i + 1], ps[i])

Occurrences(ps, p) == Cardinality({i \in 1..Len(ps) : ps[i] = p})

SamePairs(ps, qs) ==
    /\ Len(ps) = Len(qs)
    /\ \A i \in 1..Len(ps) : Occurrences(ps, ps[i]) = Occurrences(qs, ps[i])

\* no two different pairs have the same joined text
JoinedTextsDiffer(ps) ==
    \A i, j \in 1..Len(ps) : PairToString(ps[i]) = PairToString(ps[j]) => ps[i] = ps[j]

\* the output is origin + path + ("?" + the input's pairs in the given order),
\* the "?" left out when there are no pairs
OutputForm(Less(_, _)) ==
    LET prefix == UrlOrigin(canon.in) \o UrlPathname(canon.in)
        pairs  == InputPairs(canon.in)
    IN  /\ StartsWith(canon.once, prefix)
        /\ IF pairs = <<>> THEN canon.once = prefix
           ELSE /\ Len(canon.once) > Len(prefix) + 1
                /\ canon.once[Len(prefix) + 1] = "?"
                /\ canon.once = prefix \o <<"?">> \o ParamsToString(InputPairs(canon.once))
        /\ SamePairs(InputPairs(canon.once), pairs)
        /\ SortedBy(Less, InputPairs(canon.once))

Idempotent == canon.stage = "twice" /\ IsAbsoluteUrl(canon.in) => canon.twice = canon.once

\* C9, order of the parameters: two absolute URLs that differ only in the
\* order of their query parameters canonicalize to the same string.
C9_ReorderingSameOutput ==
    Canonicalized =>
        \A r \in Reorderings(canon.in) : normalizeUrlForComparison(r) = canon.once

\* C9, all of it: reordering the parameters, or one more trailing "&" after a
\* query or one trailing "?" after a URL without one, does not change the
\* output; the output is origin + path + ("?" + the pairs sorted by
\* (name, value)), without the "?" when there are no pairs; canonicalizing
\* the output returns it unchanged.
C9_AsClaimed ==
    /\ C9_ReorderingSameOutput
    /\ Canonicalized =>
        /\ HasQuestionMark(canon.in) =>
              normalizeUrlForComparison(canon.in \o <<"&">>) = canon.once
        /\ ~HasQuestionMark(canon.in) =>
              normalizeUrlForComparison(canon.in \o <<"?">>) = canon.once
        /\ OutputForm(NameValueLess)
    /\ Idempotent

\* C9, what the code does keep: reordering does not change the output when
\* no two different pairs have the same text name + "," + value (the sort
\* compares that text and is stable, so such pairs keep the order of the
\* input); a trailing "&" after a query and a trailing "?" after a URL
\* without one are dropped; the pairs of the output are those of the input,
\* sorted by the text name + "," + value; canonicalizing the output returns it
\* unchanged.
C9_SortByJoinedText ==
    /\ Canonicalized =>
        /\ JoinedTextsDiffer(InputPairs(canon.in)) =>
              \A r \in Reorderings(canon.in) : normalizeUrlForComparison(r) = canon.once
        /\ HasQuestionMark(canon.in) =>
              normalizeUrlForComparison(canon.in \o <<"&">>) = canon.once
        /\ ~HasQuestionMark(canon.in) =>
              normalizeUrlForComparison(canon.in \o <<"?">>) = canon.once
        /\ OutputForm(JoinedLess)
    /\ Idempotent

\* a URL with two parameters that the sort exchanges, canonicalized twice
C9_Witness ==
    /\ canon.stage = "twice"
    /\ IsAbsoluteUrl(canon.in)
    /\ Len(InputPairs(canon.in)) = 2
    /\ InputPairs(canon.once) # InputPairs(canon.in)
    /\ canon.in[Len(canon.in)] = "&"
    /\ canon.twice = canon.once

(***************************************************************************)
(* C11  the upstream credentials                                           *)
(***************************************************************************)

PathStartsWithSome(path, prefixes) == \E p \in prefixes : StartsWith(path, p)

\* the rule in the words of the documentation: the four search overrides
\* first, then the five prefixes, then the default
CredentialsRequired(path) ==
    IF PathStartsWithSome(path, { <<"/", "search", "/", "byterm">>,
                                  <<"/", "search", "/", "bytitle">>,
                                  <<"/", "search", "/", "byperson">>,
                                  <<"/", "search", "/", "music", "/", "byterm">> })
    THEN TRUE
    ELSE IF PathStartsWithSome(path, { <<"/", "search">>, <<"/", "lookup">>,
                                       <<"/", "value", "/">>, <<"/", "hub", "/">>,
                                       <<"/", "static", "/">> })
    THEN FALSE
    ELSE TRUE

CredentialHeaders == {"X-Auth-Key", "X-Auth-Date", "Authorization"}

\* C11: the upstream credentials are required for a path that starts with
\* /search/byterm, /search/bytitle, /search/byperson or /search/music/byterm;
\* otherwise not for a path that starts with /search, /lookup, /value/, /hub/
\* or /static/; otherwise they are required.  The forwarded request carries
\* X-Auth-Key, X-Auth-Date and Authorization exactly when they are required,
\* and only User-Agent otherwise; a request that requires them is not
\* forwarded with the upstream key missing.
C11_OverrideThenPrefix ==
    /\ pc # "idle" => (requiresAuth(Path(request)) <=> CredentialsRequired(Path(request)))
    /\ Forwarded =>
        /\ Len(upstream) = 1
        /\ upstream[1].headers =
              IF CredentialsRequired(Path(request))
              THEN {"User-Agent"} \cup CredentialHeaders
              ELSE {"User-Agent"}
        /\ CredentialsRequired(Path(request)) => request.env.configured

\* /search/byterm (under the /search prefix, but an override) forwarded with
\* the credentials; the handler has answered
C11_Witness ==
    /\ Forwarded
    /\ pc = "done"
    /\ StartsWith(Path(request), <<"/", "search", "/", "byterm">>)
    /\ CredentialHeaders \subseteq upstream[1].headers
    /\ response.status = 200

(***************************************************************************)
(* C12  the endpoint list comes after the claim gate                       *)
(***************************************************************************)

LocalPath(path) == path = <<"/">> \/ path = <<"/", "health">>

OnAllowList(path) == \E i \in 1..Len(ALLOWED_ENDPOINTS) : StartsWith(path, ALLOWED_ENDPOINTS[i])

EndpointNotAllowed == [status |-> 403, error |-> "Endpoint not allowed"]

ClaimNotAccepted == requiresNip98Auth(Path(request)) /\ ~validateNip98Auth(request).valid

\* for a GET request off the list that validation answers (by accepting or
\* by rejecting), the response is 401 when the path needs a claim and the
\* claim is not accepted, and 403 otherwise
C12_AnsweredOffList ==
    pc = "done" /\ IsGet(request) /\ ~LocalPath(Path(request))
            /\ ~OnAllowList(Path(request)) /\ ~validateNip98Auth(request).threw
        => response = IF ClaimNotAccepted THEN Unauthorized ELSE EndpointNotAllowed

\* C12: a GET request is forwarded upstream only if its path starts with an
\* entry of ALLOWED_ENDPOINTS; for any other path, "/" and "/health" aside,
\* nothing is fetched upstream and the response is 401 when the path requires
\* a claim and validation did not accept, and 403 "Endpoint not allowed"
\* otherwise: the claim gate is evaluated before the endpoint list.
C12_AllowlistAfterGate ==
    /\ Forwarded => IsGet(request) /\ OnAllowList(Path(request))
    /\ pc = "done" /\ IsGet(request) /\ ~LocalPath(Path(request))
            /\ ~OnAllowList(Path(request))
          => /\ ~Forwarded
             /\ response = IF ClaimNotAccepted THEN Unauthorized ELSE EndpointNotAllowed

====
